---------------------------- MODULE Spec2Model ----------------------------
(***************************************************************************)
(* A model of the Xiaomi stock sentiment dashboard (src/untitled34-1.py).  *)
(*                                                                         *)
(* The dashboard is a Streamlit script: every button click re-runs the     *)
(* script once, to completion, against the session state.  One action of   *)
(* Spec is one such run with one button pressed.  The functions the        *)
(* handlers call (analyze_sentiment, batch_sentiment_analysis,             *)
(* predict_stock_trend, fetch_google_news, fetch_stock_data) are operators *)
(* whose external collaborators (language detection, the local             *)
(* classifiers, the chat-completion API, the RSS feed, the finance API)    *)
(* are outcomes chosen by the caller from bounded sets.                    *)
(*                                                                         *)
(* Strings whose characters matter (texts with markup, API responses) are  *)
(* sequences of one-character strings.                                     *)
(***************************************************************************)
EXTENDS Integers, Sequences, FiniteSets, TLC

VARIABLES
    sentiment_en,           \* line 36/39: English classifier handle loaded?
    sentiment_zh,           \* line 37/40: Chinese classifier handle loaded?
    news_cache,             \* st.session_state.news_cache   (line 59)
    stock_cache,            \* st.session_state.stock_cache  (line 61)
    current_news_df,        \* line 63
    historical_news_df,     \* line 65
    stock_data_df,          \* line 67
    detailed_sentiment_df,  \* line 69
    prediction_df,          \* line 71
    api_valid,              \* line 73
    preferred_language,     \* line 75
    preferred_stock,        \* line 77
    memo_news,              \* @st.cache_data store of fetch_google_news
    memo_stock,             \* @st.cache_data store of fetch_stock_data
    memo_sentiment,         \* @st.cache_data store of analyze_sentiment
    run,                    \* what the last script run did (observed)
    fresh,                  \* history: memo keys computed since the last clear
    args,                   \* function-level specifications: the call's inputs
    out                     \* function-level specifications: the call's result

vars == <<sentiment_en, sentiment_zh, news_cache, stock_cache, current_news_df,
          historical_news_df, stock_data_df, detailed_sentiment_df,
          prediction_df, api_valid, preferred_language, preferred_stock,
          memo_news, memo_stock, memo_sentiment, run, fresh, args, out>>

session == <<news_cache, stock_cache, current_news_df, historical_news_df,
             stock_data_df, detailed_sentiment_df, prediction_df, api_valid,
             preferred_language, preferred_stock, memo_news, memo_stock,
             memo_sentiment, run, fresh>>

-----------------------------------------------------------------------------
(* Bounds of the model.                                                    *)

MaxTextLen == 3     \* longest text given to analyze_sentiment directly
MaxRows == 2        \* longest data frame given to batch_sentiment_analysis
MaxHistLen == 2     \* longest price history
MaxDays == 3        \* largest horizon given to predict_stock_trend directly

-----------------------------------------------------------------------------
(* Text.                                                                   *)

Alphabet == {"<", "a", ">"}

RECURSIVE SeqsUpTo(_, _)
SeqsUpTo(S, n) ==
    IF n = 0 THEN {<<>>}
    ELSE LET shorter == SeqsUpTo(S, n - 1)
         IN  shorter \cup {Append(s, c) : s \in {t \in shorter : Len(t) = n - 1}, c \in S}

Texts == SeqsUpTo(Alphabet, MaxTextLen)

\* A value that is not a string (None, NaN): re.sub raises TypeError on it.
\* It is no sequence of characters: its one element is not a character.
NotAString == <<"NaN">>

\* Position of the first ">" at or after position i of s, 0 when there is none.
RECURSIVE FirstClose(_, _)
FirstClose(s, i) ==
    IF i > Len(s) THEN 0
    ELSE IF s[i] = ">" THEN i
    ELSE FirstClose(s, i + 1)

\* re.sub(r'<[^>]+>', '', s) from position i on: a "<", one or more
\* characters other than ">", then ">" is removed; matches are found left to
\* right and do not overlap.
RECURSIVE StripFrom(_, _)
StripFrom(s, i) ==
    IF i > Len(s) THEN <<>>
    ELSE LET j == FirstClose(s, i + 1)
         IN  IF s[i] = "<" /\ j >= i + 2
             THEN StripFrom(s, j + 1)
             ELSE <<s[i]>> \o StripFrom(s, i + 1)

StripTags(s) == StripFrom(s, 1)

\* The upper-case form of each lower-case letter.
UpperOf ==
    [a |-> "A", b |-> "B", c |-> "C", d |-> "D", e |-> "E", f |-> "F",
     g |-> "G", h |-> "H", i |-> "I", j |-> "J", k |-> "K", l |-> "L",
     m |-> "M", n |-> "N", o |-> "O", p |-> "P", q |-> "Q", r |-> "R",
     s |-> "S", t |-> "T", u |-> "U", v |-> "V", w |-> "W", x |-> "X",
     y |-> "Y", z |-> "Z"]

UpperChar(c) == IF c \in DOMAIN UpperOf THEN UpperOf[c] ELSE c

\* str.upper()
ToUpper(s) == [i \in 1..Len(s) |-> UpperChar(s[i])]

Whitespace == {" "}

\* str.strip(): leading and trailing whitespace removed.
RECURSIVE LStrip(_)
LStrip(s) ==
    IF s # <<>> /\ s[1] \in Whitespace THEN LStrip(Tail(s)) ELSE s

RECURSIVE RStrip(_)
RStrip(s) ==
    IF s # <<>> /\ s[Len(s)] \in Whitespace
    THEN RStrip(SubSeq(s, 1, Len(s) - 1))
    ELSE s

Strip(s) == RStrip(LStrip(s))

\* Python's `kw in s` for strings.
Contains(s, kw) ==
    \E i \in 1..(Len(s) - Len(kw) + 1) : SubSeq(s, i, i + Len(kw) - 1) = kw

POSITIVE == <<"P", "O", "S", "I", "T", "I", "V", "E">>
NEGATIVE == <<"N", "E", "G", "A", "T", "I", "V", "E">>


-----------------------------------------------------------------------------
(* analyze_sentiment (lines 120-163).                                      *)

\* Outcomes of langdetect.detect(cleaned_text): a language code, or an
\* exception.  A text with no characters has no features to detect and raises.
DetectOutcomes(cleaned) ==
    IF cleaned = <<>> THEN {"raise"} ELSE {"en", "zh", "es", "raise"}

\* Outcomes of a local classifier: the label of its first result, or an
\* exception during inference.
LocalOutcomes == {"POSITIVE", "NEGATIVE", "positive", "raise"}

Positive == <<"P", "o", "s", "i", "t", "i", "v", "e">>
neutral == <<"n", "e", "u", "t", "r", "a", "l">>
POSITIV == <<"P", "O", "S", "I", "T", "I", "V">>

Pieces == {<<>>, Positive, NEGATIVE, neutral, <<" ">>, POSITIV}

\* Texts the chat-completion API may answer with.
Responses == {a \o b : a \in Pieces, b \in Pieces}

\* Outcomes of client.chat.completions.create(...): an exception (network,
\* authentication, rate limit), a message whose content is None, or a text.
RemoteOutcomes ==
    {[kind |-> "raise", content |-> <<>>], [kind |-> "none", content |-> <<>>]}
        \cup {[kind |-> "text", content |-> r] : r \in Responses}

\* Lines 124-127: the detected language, "en" when detection raises.
DetectLang(detect) == IF detect = "raise" THEN "en" ELSE detect

\* Lines 131-139: the local tier.  "returned": a classifier ran and its label
\* was mapped; "failed": it raised and the exception was swallowed;
\* "skipped": no classifier applies to the language.
LocalTier(lang, en, zh, local) ==
    IF lang = "en" /\ en
    THEN IF local = "raise"
         THEN [status |-> "failed", ret |-> 0]
         ELSE [status |-> "returned", ret |-> IF local = "POSITIVE" THEN 1 ELSE -1]
    ELSE IF lang = "zh" /\ zh
    THEN IF local = "raise"
         THEN [status |-> "failed", ret |-> 0]
         ELSE [status |-> "returned", ret |-> IF local = "positive" THEN 1 ELSE -1]
    ELSE [status |-> "skipped", ret |-> 0]

\* ParseResponse with the two tests of lines 154 and 156 exchanged.
ParseResponseNegativeFirst(content) ==
    LET result == ToUpper(Strip(content))
    IN  IF Contains(result, NEGATIVE) THEN -1
        ELSE IF Contains(result, POSITIVE) THEN 1
        ELSE 0

\* Lines 153-159: the response text to a score.
ParseResponse(content) ==
    LET result == ToUpper(Strip(content))
    IN  IF Contains(result, POSITIVE) THEN 1
        ELSE IF Contains(result, NEGATIVE) THEN -1
        ELSE 0

\* Lines 142-161: the remote tier, called once; any exception (the call's, or
\* .strip() on a None content) is swallowed and gives no result.
RemoteTier(remote) ==
    IF remote.kind = "text"
    THEN [status |-> "returned", ret |-> ParseResponse(remote.content)]
    ELSE [status |-> "failed", ret |-> 0]

\* analyze_sentiment calling the remote tier a second time after a failure.
AnalyzeRetryRemote(text, detailed, en, zh, env) ==
    LET cleaned == StripTags(text)
        lang == DetectLang(env.detect)
        loc == IF detailed THEN [status |-> "skipped", ret |-> 0]
               ELSE LocalTier(lang, en, zh, env.local)
        tried == IF loc.status = "skipped" THEN <<>> ELSE <<"local">>
        rem == RemoteTier(env.remote)
    IN  IF loc.status = "returned"
        THEN [raised |-> FALSE, ret |-> loc.ret, cleaned |-> cleaned,
              lang |-> lang, tiers |-> tried]
        ELSE IF detailed
        THEN [raised |-> FALSE, ret |-> 0, cleaned |-> cleaned,
              lang |-> lang, tiers |-> tried]
        ELSE [raised |-> FALSE, ret |-> rem.ret, cleaned |-> cleaned,
              lang |-> lang,
              tiers |-> IF rem.status = "failed"
                        THEN tried \o <<"remote", "remote">>
                        ELSE tried \o <<"remote">>]

\* analyze_sentiment without the try of lines 131-139.
AnalyzeLocalUncaught(text, detailed, en, zh, env) ==
    LET cleaned == StripTags(text)
        lang == DetectLang(env.detect)
        loc == IF detailed THEN [status |-> "skipped", ret |-> 0]
               ELSE LocalTier(lang, en, zh, env.local)
        tried == IF loc.status = "skipped" THEN <<>> ELSE <<"local">>
        rem == RemoteTier(env.remote)
    IN  IF loc.status = "failed"
        THEN [raised |-> TRUE, ret |-> 0, cleaned |-> cleaned,
              lang |-> lang, tiers |-> tried]
        ELSE IF loc.status = "returned"
        THEN [raised |-> FALSE, ret |-> loc.ret, cleaned |-> cleaned,
              lang |-> lang, tiers |-> tried]
        ELSE IF detailed
        THEN [raised |-> FALSE, ret |-> 0, cleaned |-> cleaned,
              lang |-> lang, tiers |-> tried]
        ELSE [raised |-> FALSE, ret |-> rem.ret, cleaned |-> cleaned,
              lang |-> lang, tiers |-> tried \o <<"remote">>]

\* What one call did: the value returned (or that an exception escaped), the
\* text the tiers were given, and the tiers called, in call order.
analyze_sentiment(text, detailed, en, zh, env) ==
    IF text = NotAString
    THEN \* line 123: re.sub raises TypeError, outside every try block
         [raised |-> TRUE, ret |-> 0, cleaned |-> <<>>, lang |-> "en",
          tiers |-> <<>>]
    ELSE
    LET cleaned == StripTags(text)
        lang == DetectLang(env.detect)
        loc == IF detailed THEN [status |-> "skipped", ret |-> 0]
               ELSE LocalTier(lang, en, zh, env.local)
        tried == IF loc.status = "skipped" THEN <<>> ELSE <<"local">>
        rem == RemoteTier(env.remote)
    IN  IF loc.status = "returned"
        THEN [raised |-> FALSE, ret |-> loc.ret, cleaned |-> cleaned,
              lang |-> lang, tiers |-> tried]
        ELSE IF detailed
        THEN \* lines 143, 163: neither tier runs
             [raised |-> FALSE, ret |-> 0, cleaned |-> cleaned,
              lang |-> lang, tiers |-> tried]
        ELSE [raised |-> FALSE, ret |-> rem.ret, cleaned |-> cleaned,
              lang |-> lang, tiers |-> tried \o <<"remote">>]

\* The environments one call on `text` can meet.
Envs(text) ==
    [detect : DetectOutcomes(IF text = NotAString THEN <<>> ELSE StripTags(text)),
     local : LocalOutcomes,
     remote : RemoteOutcomes]

-----------------------------------------------------------------------------
(* The @st.cache_data decorator (lines 81, 105, 120, 185): a store from    *)
(* the call's arguments to the value it returned.  A call whose arguments  *)
(* are in the store returns the stored value and does not run the body; a  *)
(* call that raises stores nothing.                                        *)

MemoPut(memo, key, value) ==
    [k \in (DOMAIN memo) \cup {key} |-> IF k = key THEN value ELSE memo[k]]

\* analyze_sentiment as its callers see it, through the decorator.
CachedAnalyze(memo, text, detailed, en, zh, env) ==
    LET key == <<text, detailed>>
    IN  IF key \in DOMAIN memo
        THEN [raised |-> FALSE, ret |-> memo[key], tiers |-> <<>>,
              hit |-> TRUE, memo |-> memo]
        ELSE LET r == analyze_sentiment(text, detailed, en, zh, env)
             IN  [raised |-> r.raised, ret |-> r.ret, tiers |-> r.tiers,
                  hit |-> FALSE,
                  memo |-> IF r.raised THEN memo ELSE MemoPut(memo, key, r.ret)]

-----------------------------------------------------------------------------
(* batch_sentiment_analysis (lines 165-183).                               *)

Min(a, b) == IF a < b THEN a ELSE b
Max(a, b) == IF a > b THEN a ELSE b

\* DataFrame.head(n): the first n rows; all but the last -n for a negative n.
DfHead(df, n) ==
    IF n >= 0 THEN SubSeq(df, 1, Min(n, Len(df)))
    ELSE SubSeq(df, 1, Max(Len(df) + n, 0))

\* Line 173.
Label(score) ==
    IF score > 0 THEN "Positive" ELSE IF score < 0 THEN "Negative" ELSE "Neutral"

\* The loop of lines 169-182 ending at the first row that raises.
RECURSIVE BatchAbortFrom(_, _, _, _, _, _)
BatchAbortFrom(rows, envs, i, en, zh, acc) ==
    IF i > Len(rows) THEN acc
    ELSE LET r == CachedAnalyze(acc.memo, rows[i].title, FALSE, en, zh, envs[i])
         IN  IF r.raised
             THEN acc
             ELSE BatchAbortFrom(rows, envs, i + 1, en, zh,
                     [results |-> Append(acc.results,
                                    [title |-> rows[i].title, score |-> r.ret,
                                     label |-> Label(r.ret),
                                     time |-> rows[i].published]),
                      memo |-> r.memo,
                      tiers |-> acc.tiers \o r.tiers])

\* Lines 169-182 from row i on; acc holds the results so far, the store of
\* analyze_sentiment and the tiers called.  envs[i] is the environment the
\* i-th row's call meets.
RECURSIVE BatchFrom(_, _, _, _, _, _)
BatchFrom(rows, envs, i, en, zh, acc) ==
    IF i > Len(rows) THEN acc
    ELSE LET r == CachedAnalyze(acc.memo, rows[i].title, FALSE, en, zh, envs[i])
         IN  IF r.raised
             THEN \* lines 181-182: except Exception: continue
                  BatchFrom(rows, envs, i + 1, en, zh, acc)
             ELSE BatchFrom(rows, envs, i + 1, en, zh,
                     [results |-> Append(acc.results,
                                    [title |-> rows[i].title, score |-> r.ret,
                                     label |-> Label(r.ret),
                                     time |-> rows[i].published]),
                      memo |-> r.memo,
                      tiers |-> acc.tiers \o r.tiers])

\* batch_sentiment_analysis with the try outside the loop.
BatchAbortOnFailure(df, max_count, memo, en, zh, envs) ==
    BatchAbortFrom(DfHead(df, max_count), envs, 1, en, zh,
                   [results |-> <<>>, memo |-> memo, tiers |-> <<>>])

\* Lines 165-183.
batch_sentiment_analysis(df, max_count, memo, en, zh, envs) ==
    BatchFrom(DfHead(df, max_count), envs, 1, en, zh,
              [results |-> <<>>, memo |-> memo, tiers |-> <<>>])

\* The environments the batch and session specifications draw from: each
\* tier succeeding and failing.
SmallEnvs ==
    {[detect |-> "en", local |-> "POSITIVE",
      remote |-> [kind |-> "raise", content |-> <<>>]],
     [detect |-> "raise", local |-> "NEGATIVE",
      remote |-> [kind |-> "text", content |-> Positive]],
     [detect |-> "es", local |-> "raise",
      remote |-> [kind |-> "text", content |-> neutral]],
     [detect |-> "raise", local |-> "raise",
      remote |-> [kind |-> "raise", content |-> <<>>]]}

SmallEnvsFor(text) ==
    {e \in SmallEnvs :
        e.detect \in DetectOutcomes(IF text = NotAString THEN <<>>
                                    ELSE StripTags(text))}

\* One environment per row of df.
RowEnvs(df) ==
    {e \in [1..Len(df) -> SmallEnvs] :
        \A i \in 1..Len(df) : e[i] \in SmallEnvsFor(df[i].title)}

-----------------------------------------------------------------------------
(* Timestamps: the index of a price history and timedelta(days=n).         *)

IsLeap(y) == (y % 4 = 0 /\ y % 100 # 0) \/ y % 400 = 0
DaysInYear(y) == IF IsLeap(y) THEN 366 ELSE 365
DaysInMonth(y, m) ==
    IF m = 2 THEN (IF IsLeap(y) THEN 29 ELSE 28)
    ELSE IF m \in {4, 6, 9, 11} THEN 30
    ELSE 31

\* Ordinals count days from the epoch, a Monday.
Epoch == [y |-> 2024, m |-> 1, d |-> 1]

RECURSIVE DaysBeforeYear(_)
DaysBeforeYear(y) ==
    IF y <= Epoch.y THEN 0 ELSE DaysBeforeYear(y - 1) + DaysInYear(y - 1)

RECURSIVE DaysBeforeMonth(_, _)
DaysBeforeMonth(y, m) ==
    IF m <= 1 THEN 0 ELSE DaysBeforeMonth(y, m - 1) + DaysInMonth(y, m - 1)

ToOrdinal(date) ==
    DaysBeforeYear(date.y) + DaysBeforeMonth(date.y, date.m) + date.d - 1

RECURSIVE FromYearDay(_, _, _)
FromYearDay(y, m, n) ==
    IF n < DaysInMonth(y, m) THEN [y |-> y, m |-> m, d |-> n + 1]
    ELSE FromYearDay(y, m + 1, n - DaysInMonth(y, m))

RECURSIVE FromOrdinalFrom(_, _)
FromOrdinalFrom(y, n) ==
    IF n < DaysInYear(y) THEN FromYearDay(y, 1, n)
    ELSE FromOrdinalFrom(y + 1, n - DaysInYear(y))

FromOrdinal(n) == FromOrdinalFrom(Epoch.y, n)

\* The index yfinance gives a history is timezone-aware, in the exchange's
\* zone: Hong Kong for 1810.HK, New York for XIACF.
Zones == {"Asia/Hong_Kong", "America/New_York"}

RECURSIVE YearFrom(_, _)
YearFrom(y, n) ==
    IF n < DaysInYear(y) THEN y ELSE YearFrom(y + 1, n - DaysInYear(y))

\* The ordinal of the n-th Sunday of month m of year y.
NthSunday(y, m, n) ==
    LET first == DaysBeforeYear(y) + DaysBeforeMonth(y, m)
    IN  first + ((6 - (first % 7)) % 7) + 7 * (n - 1)

\* Hours east of UTC at the instant utc (hours since the epoch).  Hong Kong
\* keeps +8; New York is at -4 from the second Sunday of March, 07:00 UTC,
\* to the first Sunday of November, 06:00 UTC, and at -5 otherwise.
UtcOffset(tz, utc) ==
    IF tz = "Asia/Hong_Kong" THEN 8
    ELSE LET y == YearFrom(Epoch.y, utc \div 24)
         IN  IF /\ NthSunday(y, 3, 2) * 24 + 7 <= utc
                /\ utc < NthSunday(y, 11, 1) * 24 + 6
             THEN 0 - 4 ELSE 0 - 5

\* A pandas Timestamp: an instant and a zone.  Midnight(date, tz) is the
\* timestamp of a daily bar, 00:00 wall-clock time of `date` in zone tz.
Midnight(date, tz) ==
    LET wall == ToOrdinal(date) * 24
    IN  [utc |-> CHOOSE u \in (wall - 8)..(wall + 5) :
                     u + UtcOffset(tz, u) = wall,
         tz |-> tz]

\* The wall-clock fields of a timestamp.
WallHours(ts) == ts.utc + UtcOffset(ts.tz, ts.utc)
DateOf(ts) == FromOrdinal(WallHours(ts) \div 24)
HourOf(ts) == WallHours(ts) % 24

\* Timestamp + timedelta(days=n): a timedelta is an absolute duration of
\* 24 n hours, whatever the zone's clock does in between.
AddDays(ts, n) == [ts EXCEPT !.utc = @ + 24 * n]

\* Timestamp.dayofweek (Monday is 0) and Timestamp.month.
DayOfWeek(ts) == (WallHours(ts) \div 24) % 7
Month(ts) == DateOf(ts).m

-----------------------------------------------------------------------------
(* predict_stock_trend (lines 185-216).                                    *)

\* A price history is a sequence of rows [Date, Close], ascending by date
\* (the Open, Volume, MA5 and MA20 columns play no part in the forecast).
\* A frame without a Close column has rows without that field.

HasClose(stock_data) == "Close" \in DOMAIN stock_data[1]

\* Lines 192-195 and 208: the features of a timestamp.
Features(ts) == <<DayOfWeek(ts), Month(ts)>>

\* PolynomialFeatures(degree=2) of two features: 1, x, y, x^2, xy, y^2.
Poly(f) == <<1, f[1], f[2], f[1] * f[1], f[1] * f[2], f[2] * f[2]>>

\* Lines 198-202: the fitted model is determined by its training set; the
\* least-squares solution itself is sklearn's and is kept symbolic.
Fit(stock_data) ==
    [X |-> [i \in 1..Len(stock_data) |-> Poly(Features(stock_data[i].Date))],
     y |-> [i \in 1..Len(stock_data) |-> stock_data[i].Close]]

\* Line 211: the prediction of `model` at polynomial features x.
Predict(model, x) == [model |-> model, x |-> x]

\* The call's outcome: the frame returned, or an exception.
predict_stock_trend(stock_data, days_ahead) ==
    IF stock_data = <<>> \/ ~HasClose(stock_data)
    THEN [raised |-> FALSE, ret |-> <<>>]                  \* lines 188-189
    ELSE IF days_ahead <= 0
    THEN \* line 209: range(days_ahead) is empty, future_features is [], and
         \* poly.transform([]) raises ValueError (a 2D array is expected)
         [raised |-> TRUE, ret |-> <<>>]
    ELSE LET model == Fit(stock_data)
             last_date == stock_data[Len(stock_data)].Date
         IN  \* line 205: last_date + timedelta(days=i+1) for i in range(days_ahead)
             [raised |-> FALSE,
              ret |-> [i \in 1..days_ahead |->
                          LET d == AddDays(last_date, i)
                          IN  [Date |-> d,
                               Predicted_Close |->
                                   Predict(model, Poly(Features(d)))]]]

Prices == {10, 12}

StartDates ==
    {[y |-> 2024, m |-> 2, d |-> 27], [y |-> 2024, m |-> 3, d |-> 7],
     [y |-> 2024, m |-> 10, d |-> 31], [y |-> 2024, m |-> 12, d |-> 30],
     [y |-> 2025, m |-> 2, d |-> 27]}

\* Daily bars from `start` on, one per calendar day.
MkHistory(start, tz, closes) ==
    [i \in 1..Len(closes) |->
        [Date |-> Midnight(FromOrdinal(ToOrdinal(start) + i - 1), tz),
         Close |-> closes[i]]]

Histories ==
    {MkHistory(s, tz, c) : s \in StartDates, tz \in Zones,
                           c \in SeqsUpTo(Prices, MaxHistLen) \ {<<>>}}

\* A non-empty frame without a Close column.
NoCloseFrame == <<[Date |-> Midnight(Epoch, "America/New_York"), Open |-> 10]>>

-----------------------------------------------------------------------------
(* Values of the variables a specification does not use.                   *)

NoCall == [fn |-> "none"]
Pending == [done |-> FALSE]
NoRun == [button |-> "none", input |-> <<>>, calls |-> {}, messages |-> {},
          exception |-> "none"]
EmptyFrame == <<>>
EmptyMemo == <<>>

\* Lines 35-40: both pipelines load, or the except branch sets both to None.
ModelsInit ==
    \E loaded \in BOOLEAN : sentiment_en = loaded /\ sentiment_zh = loaded

\* Lines 58-77.
SessionInit ==
    /\ news_cache = EmptyMemo
    /\ stock_cache = EmptyMemo
    /\ current_news_df = EmptyFrame
    /\ historical_news_df = EmptyFrame
    /\ stock_data_df = EmptyFrame
    /\ detailed_sentiment_df = EmptyFrame
    /\ prediction_df = EmptyFrame
    /\ api_valid = FALSE
    /\ preferred_language = "English"
    /\ preferred_stock = "1810.HK"
    /\ memo_news = EmptyMemo
    /\ memo_stock = EmptyMemo
    /\ memo_sentiment = EmptyMemo
    /\ run = NoRun
    /\ fresh = {}

-----------------------------------------------------------------------------
(* SpecScore: one direct call of analyze_sentiment on any text, in any     *)
(* environment.                                                            *)

InitScore ==
    /\ ModelsInit
    /\ SessionInit
    /\ \E text \in Texts, detailed \in BOOLEAN :
         \E env \in Envs(text) :
            args = [fn |-> "analyze_sentiment", text |-> text,
                    detailed |-> detailed, env |-> env]
    /\ out = Pending

CallAnalyzeSentiment ==
    /\ args.fn = "analyze_sentiment"
    /\ out = Pending
    /\ out' = [done |-> TRUE,
               res |-> analyze_sentiment(args.text, args.detailed,
                                         sentiment_en, sentiment_zh, args.env)]
    /\ UNCHANGED <<sentiment_en, sentiment_zh, session, args>>

NextScore == CallAnalyzeSentiment

SpecScore == InitScore /\ [][NextScore]_vars


-----------------------------------------------------------------------------
(* SpecBatch: one direct call of batch_sentiment_analysis.                 *)

BatchTitles == {<<"a">>, <<"<", "a", ">">>, NotAString}

\* The frame whose i-th row has the i-th title and was published at time i.
MkFrame(titles) ==
    [i \in 1..Len(titles) |-> [title |-> titles[i], published |-> i]]

InitBatch ==
    /\ ModelsInit
    /\ SessionInit
    /\ \E titles \in SeqsUpTo(BatchTitles, MaxRows), k \in 0..(MaxRows + 1) :
         \E envs \in RowEnvs(MkFrame(titles)) :
            args = [fn |-> "batch_sentiment_analysis", df |-> MkFrame(titles),
                    max_count |-> k, envs |-> envs]
    /\ out = Pending

CallBatch ==
    /\ args.fn = "batch_sentiment_analysis"
    /\ out = Pending
    /\ out' = [done |-> TRUE,
               res |-> batch_sentiment_analysis(args.df, args.max_count,
                          EmptyMemo, sentiment_en, sentiment_zh, args.envs)]
    /\ UNCHANGED <<sentiment_en, sentiment_zh, session, args>>

NextBatch == CallBatch

SpecBatch == InitBatch /\ [][NextBatch]_vars

-----------------------------------------------------------------------------
(* SpecForecast: one direct call of predict_stock_trend.                   *)

InitForecast ==
    /\ ModelsInit
    /\ SessionInit
    /\ \E stock_data \in Histories \cup {EmptyFrame, NoCloseFrame},
          days \in 0..MaxDays :
            args = [fn |-> "predict_stock_trend", stock_data |-> stock_data,
                    days_ahead |-> days]
    /\ out = Pending

CallPredict ==
    /\ args.fn = "predict_stock_trend"
    /\ out = Pending
    /\ out' = [done |-> TRUE,
               res |-> predict_stock_trend(args.stock_data, args.days_ahead)]
    /\ UNCHANGED <<sentiment_en, sentiment_zh, session, args>>

NextForecast == CallPredict

SpecForecast == InitForecast /\ [][NextForecast]_vars


-----------------------------------------------------------------------------
(* The session.  Each action is one run of the script with one button      *)
(* pressed; the widgets' values and what the outside world answers are the *)
(* action's parameters.  A handler's action gives the program state the    *)
(* run leaves (the session state and the stores of @st.cache_data); what   *)
(* the run showed and whether it ended in an exception is its ...Ran       *)
(* operator, recorded in `run` by the specifications that observe it.      *)

\* Lines 43-48.
SUPPORTED_LANGUAGES ==
    [English |-> <<"en-US", "US:en">>,
     SimplifiedChinese |-> <<"zh-CN", "CN:zh-Hans">>,
     TraditionalChinese |-> <<"zh-TW", "TW:zh-Hant">>,
     Spanish |-> <<"es-ES", "ES:es">>]

LanguageNames ==
    [English |-> "English", SimplifiedChinese |-> "Simplified Chinese",
     TraditionalChinese |-> "Traditional Chinese", Spanish |-> "Spanish"]

\* Lines 51-54: the values of STOCK_SYMBOLS.
STOCK_SYMBOLS == {"1810.HK", "XIACF"}

\* The widget values the session draws from.
Keywords == {"Xiaomi"}
NewsLanguages == {"English"}
ArticleSlider == {50}
Periods == {"1y"}
ArticleCounts == {20}
ForecastDays == {7, 14, 30}
InputTexts == {<<>>, <<" ">>, <<"a">>}
SourceChoices == {"Current News", "Historical News"}

\* What feedparser.parse may give: an exception, or a feed.  An entry whose
\* title is missing raises inside the entry loop.
MissingTitle == <<"missing">>
Entry1 == [title |-> <<"<", "a", ">", "a">>, published |-> 1]
Entry2 == [title |-> <<"<", "a", ">">>, published |-> 2]
Entry3 == [title |-> MissingTitle, published |-> 3]

FeedOutcomes ==
    {[kind |-> "raise", entries |-> <<>>],
     [kind |-> "feed", entries |-> <<Entry3, Entry1, Entry2>>]}

\* Lines 89-99: the entries that parse, in feed order, titles stripped of tags.
RECURSIVE ParseEntries(_, _)
ParseEntries(entries, i) ==
    IF i > Len(entries) THEN <<>>
    ELSE IF entries[i].title = MissingTitle
    THEN ParseEntries(entries, i + 1)                  \* lines 98-99
    ELSE <<[title |-> StripTags(entries[i].title),
            published |-> entries[i].published]>>
         \o ParseEntries(entries, i + 1)

\* Lines 82-103, the body: the frame returned for what the feed gave.
fetch_google_news(feed, max_articles) ==
    IF feed.kind = "raise" THEN <<>>                   \* lines 101-103
    ELSE ParseEntries(DfHead(feed.entries, max_articles), 1)

\* What yfinance may give: an exception, or a history (possibly empty).  The
\* two exchanges' histories end on different days.
HistoryOf(symbol) ==
    IF symbol = "1810.HK"
    THEN MkHistory([y |-> 2024, m |-> 12, d |-> 30], "Asia/Hong_Kong", <<10, 12>>)
    ELSE MkHistory([y |-> 2025, m |-> 1, d |-> 30], "America/New_York", <<12>>)

StockOutcomes(symbol) ==
    {[kind |-> "raise", hist |-> <<>>], [kind |-> "hist", hist |-> <<>>],
     [kind |-> "hist", hist |-> HistoryOf(symbol)]}

\* Lines 106-118, the body.
fetch_stock_data(outcome) ==
    IF outcome.kind = "raise" THEN <<>>                \* lines 116-118
    ELSE outcome.hist                                  \* lines 111-115

\* One memoised call of a run: the function, its arguments, and whether its
\* body ran (and so contacted the outside world).
Call(fn, key, computed) == [fn |-> fn, key |-> key, computed |-> computed]

\* What one run did: the button pressed, the widgets' values, the memoised
\* calls made, the kinds of message shown, and the exception that ended the
\* run ("none" when it ran to its end).
Ran(button, input, calls, messages, exception) ==
    [button |-> button, input |-> input, calls |-> calls,
     messages |-> messages, exception |-> exception]

NewsKey(keyword, lang_display, max_articles) ==
    <<keyword, SUPPORTED_LANGUAGES[lang_display][1],
      SUPPORTED_LANGUAGES[lang_display][2], max_articles>>

\* fetch_google_news as the handler sees it, through the decorator.
CachedNews(key, feed) ==
    IF key \in DOMAIN memo_news THEN memo_news[key]
    ELSE fetch_google_news(feed, key[4])

\* Lines 252-260.
FetchNews(keyword, lang_display, max_articles, feed) ==
    LET key == NewsKey(keyword, lang_display, max_articles)
        news_df == CachedNews(key, feed)
    IN  /\ memo_news' = MemoPut(memo_news, key, news_df)
        /\ current_news_df' = IF news_df # <<>> THEN news_df ELSE current_news_df
        /\ UNCHANGED <<sentiment_en, sentiment_zh, news_cache, stock_cache,
                       historical_news_df, stock_data_df, detailed_sentiment_df,
                       prediction_df, api_valid, preferred_language,
                       preferred_stock, memo_stock, memo_sentiment, args, out>>

FetchNewsRan(keyword, lang_display, max_articles, feed) ==
    LET key == NewsKey(keyword, lang_display, max_articles)
        hit == key \in DOMAIN memo_news
    IN  Ran("Fetch News", key, {Call("fetch_google_news", key, ~hit)},
            (IF CachedNews(key, feed) # <<>> THEN {"success"} ELSE {"warning"})
              \cup (IF ~hit /\ feed.kind = "raise" THEN {"error"} ELSE {}),
            "none")

\* fetch_stock_data as the handler sees it, through the decorator.
CachedStock(key, outcome) ==
    IF key \in DOMAIN memo_stock THEN memo_stock[key]
    ELSE fetch_stock_data(outcome)

\* Lines 281-305.
FetchStockData(symbol, period, outcome) ==
    LET key == <<symbol, period>>
        stock_data == CachedStock(key, outcome)
    IN  /\ memo_stock' = MemoPut(memo_stock, key, stock_data)
        /\ stock_data_df' = IF stock_data # <<>> THEN stock_data ELSE stock_data_df
        /\ UNCHANGED <<sentiment_en, sentiment_zh, news_cache, stock_cache,
                       current_news_df, historical_news_df, detailed_sentiment_df,
                       prediction_df, api_valid, preferred_language,
                       preferred_stock, memo_news, memo_sentiment, args, out>>

FetchStockDataRan(symbol, period, outcome) ==
    LET key == <<symbol, period>>
        hit == key \in DOMAIN memo_stock
    IN  Ran("Fetch Stock Data", key, {Call("fetch_stock_data", key, ~hit)},
            (IF CachedStock(key, outcome) # <<>> THEN {"success"} ELSE {"warning"})
              \cup (IF ~hit /\ outcome.kind = "raise" THEN {"error"} ELSE {}),
            "none")

\* Lines 313-324.
AnalyzeSentiment(input_text, env) ==
    LET r == CachedAnalyze(memo_sentiment, input_text, FALSE,
                           sentiment_en, sentiment_zh, env)
    IN  /\ memo_sentiment' = IF Strip(input_text) = <<>> THEN memo_sentiment
                             ELSE r.memo
        /\ UNCHANGED <<sentiment_en, sentiment_zh, news_cache, stock_cache,
                       current_news_df, historical_news_df, stock_data_df,
                       detailed_sentiment_df, prediction_df, api_valid,
                       preferred_language, preferred_stock, memo_news,
                       memo_stock, args, out>>

AnalyzeSentimentRan(input_text, env) ==
    LET r == CachedAnalyze(memo_sentiment, input_text, FALSE,
                           sentiment_en, sentiment_zh, env)
    IN  IF Strip(input_text) = <<>>
        THEN Ran("Analyze Sentiment", <<input_text>>, {}, {"warning"}, "none")
        ELSE Ran("Analyze Sentiment", <<input_text>>,
                 {Call("analyze_sentiment", <<input_text, FALSE>>, ~r.hit)},
                 {IF r.ret = 1 THEN "success"
                  ELSE IF r.ret = -1 THEN "error" ELSE "info"},
                 "none")

\* Line 330.
Source(source_choice) ==
    IF source_choice = "Current News" THEN current_news_df
    ELSE historical_news_df

\* Lines 333-386.  With an empty source lines 336/341 warn and leave
\* target_df unbound, so line 345 raises NameError and the run ends there.
RunBatchAnalysis(source_choice, article_count, envs) ==
    LET source == Source(source_choice)
        b == batch_sentiment_analysis(source, article_count, memo_sentiment,
                                      sentiment_en, sentiment_zh, envs)
    IN  /\ IF source = <<>>
           THEN UNCHANGED <<detailed_sentiment_df, memo_sentiment>>
           ELSE /\ memo_sentiment' = b.memo
                /\ detailed_sentiment_df' =
                     IF b.results # <<>> THEN b.results ELSE detailed_sentiment_df
        /\ UNCHANGED <<sentiment_en, sentiment_zh, news_cache, stock_cache,
                       current_news_df, historical_news_df, stock_data_df,
                       prediction_df, api_valid, preferred_language,
                       preferred_stock, memo_news, memo_stock, args, out>>

\* The memoised calls a batch over df makes: one per distinct title, computed
\* when the title was not in the store before the batch.
BatchCalls(df) ==
    {Call("analyze_sentiment", <<df[i].title, FALSE>>,
          <<df[i].title, FALSE>> \notin DOMAIN memo_sentiment) : i \in 1..Len(df)}

RunBatchAnalysisRan(source_choice, article_count, envs) ==
    LET source == Source(source_choice)
        b == batch_sentiment_analysis(source, article_count, memo_sentiment,
                                      sentiment_en, sentiment_zh, envs)
    IN  IF source = <<>>
        THEN Ran("Run Batch Analysis", <<source_choice, article_count>>, {},
                 {"warning"}, "NameError")
        ELSE Ran("Run Batch Analysis", <<source_choice, article_count>>,
                 BatchCalls(DfHead(source, article_count)),
                 IF b.results # <<>> THEN {"success"} ELSE {"warning"}, "none")

\* Lines 394-432.  predict_stock_trend is memoised too (line 185); it is a
\* function of its arguments and contacts nothing, so the stored and the
\* recomputed value are the same and its store is not part of the state.
GenerateForecast(forecast_days) ==
    LET p == predict_stock_trend(stock_data_df, forecast_days)
    IN  /\ prediction_df' = IF stock_data_df # <<>> /\ ~p.raised /\ p.ret # <<>>
                            THEN p.ret
                            ELSE prediction_df
        /\ UNCHANGED <<sentiment_en, sentiment_zh, news_cache, stock_cache,
                       current_news_df, historical_news_df, stock_data_df,
                       detailed_sentiment_df, api_valid, preferred_language,
                       preferred_stock, memo_news, memo_stock, memo_sentiment,
                       args, out>>

GenerateForecastRan(forecast_days) ==
    LET p == predict_stock_trend(stock_data_df, forecast_days)
    IN  IF stock_data_df # <<>> /\ p.raised
        THEN Ran("Generate Forecast", <<forecast_days>>, {}, {}, "ValueError")
        ELSE Ran("Generate Forecast", <<forecast_days>>, {},
                 IF stock_data_df # <<>> /\ p.ret # <<>>
                 THEN {"success"} ELSE {"warning"},
                 "none")

\* Lines 452-455.
SavePreferences(new_lang, new_stock) ==
    /\ preferred_language' = new_lang
    /\ preferred_stock' = new_stock
    /\ UNCHANGED <<sentiment_en, sentiment_zh, news_cache, stock_cache,
                   current_news_df, historical_news_df, stock_data_df,
                   detailed_sentiment_df, prediction_df, api_valid, memo_news,
                   memo_stock, memo_sentiment, args, out>>

\* Lines 218-229: requests.get answers 200, answers otherwise, or raises.
check_openai_api_validity(response) == response = "200"

\* Lines 460-466.
VerifyApiKey(response) ==
    /\ api_valid' = IF check_openai_api_validity(response) THEN TRUE ELSE api_valid
    /\ UNCHANGED <<sentiment_en, sentiment_zh, news_cache, stock_cache,
                   current_news_df, historical_news_df, stock_data_df,
                   detailed_sentiment_df, prediction_df, preferred_language,
                   preferred_stock, memo_news, memo_stock, memo_sentiment,
                   args, out>>

\* ClearCachedData without line 478.
ClearKeepsForecast ==
    /\ news_cache' = EmptyMemo
    /\ stock_cache' = EmptyMemo
    /\ current_news_df' = EmptyFrame
    /\ historical_news_df' = EmptyFrame
    /\ stock_data_df' = EmptyFrame
    /\ detailed_sentiment_df' = EmptyFrame
    /\ UNCHANGED <<sentiment_en, sentiment_zh, prediction_df, api_valid,
                   preferred_language, preferred_stock, memo_news, memo_stock,
                   memo_sentiment, args, out>>

\* Lines 471-479.  The stores of @st.cache_data are not touched: only the
\* two session dictionaries, which nothing else writes, and the five frames.
ClearCachedData ==
    /\ news_cache' = EmptyMemo
    /\ stock_cache' = EmptyMemo
    /\ current_news_df' = EmptyFrame
    /\ historical_news_df' = EmptyFrame
    /\ stock_data_df' = EmptyFrame
    /\ detailed_sentiment_df' = EmptyFrame
    /\ prediction_df' = EmptyFrame
    /\ UNCHANGED <<sentiment_en, sentiment_zh, api_valid, preferred_language,
                   preferred_stock, memo_news, memo_stock, memo_sentiment,
                   args, out>>

ClearCachedDataRan == Ran("Clear Cached Data", <<>>, {}, {"success"}, "none")

\* What the outside world can answer a run.  A call whose arguments are in
\* the store contacts nothing: it is given one fixed answer, which it ignores.
FeedsFor(key) ==
    IF key \in DOMAIN memo_news THEN {[kind |-> "raise", entries |-> <<>>]}
    ELSE FeedOutcomes

StockFor(symbol, period) ==
    IF <<symbol, period>> \in DOMAIN memo_stock
    THEN {[kind |-> "raise", hist |-> <<>>]}
    ELSE StockOutcomes(symbol)

FixedEnv(text) == CHOOSE e \in SmallEnvsFor(text) : TRUE

EnvsFor(text) ==
    IF <<text, FALSE>> \in DOMAIN memo_sentiment \/ Strip(text) = <<>>
    THEN {FixedEnv(text)}
    ELSE SmallEnvsFor(text)

BatchEnvs(df) ==
    {e \in RowEnvs(df) :
        \A i \in 1..Len(df) :
            <<df[i].title, FALSE>> \in DOMAIN memo_sentiment
                => e[i] = FixedEnv(df[i].title)}

Init ==
    /\ ModelsInit
    /\ SessionInit
    /\ args = NoCall
    /\ out = Pending

\* Spec: the program state under every handler; what the runs showed is not
\* recorded.
Unobserved == UNCHANGED <<run, fresh>>

Next ==
    \/ \E k \in Keywords, l \in NewsLanguages, n \in ArticleSlider :
          \E feed \in FeedsFor(NewsKey(k, l, n)) :
             FetchNews(k, l, n, feed) /\ Unobserved
    \/ \E s \in STOCK_SYMBOLS, p \in Periods :
          \E o \in StockFor(s, p) : FetchStockData(s, p, o) /\ Unobserved
    \/ \E t \in InputTexts :
          \E env \in EnvsFor(t) : AnalyzeSentiment(t, env) /\ Unobserved
    \/ \E c \in SourceChoices, n \in ArticleCounts :
          \E envs \in BatchEnvs(Source(c)) :
             RunBatchAnalysis(c, n, envs) /\ Unobserved
    \/ \E d \in ForecastDays : GenerateForecast(d) /\ Unobserved
    \/ \E l \in DOMAIN SUPPORTED_LANGUAGES, s \in STOCK_SYMBOLS :
          SavePreferences(LanguageNames[l], s) /\ Unobserved
    \/ \E r \in {"200", "401", "raise"} : VerifyApiKey(r) /\ Unobserved
    \/ ClearCachedData /\ Unobserved

Spec == Init /\ [][Next]_vars


-----------------------------------------------------------------------------
(* The specifications that observe the runs.  `run` is what the last run   *)
(* did; `fresh` holds the memoised calls, as <<function, arguments>>,      *)
(* made since the session started or was last cleared.                     *)

Called(r) == {<<c.fn, c.key>> : c \in r.calls}

Observe(r) ==
    /\ run' = r
    /\ fresh' = fresh \cup Called(r)

ObserveClear ==
    /\ run' = ClearCachedDataRan
    /\ fresh' = {}

\* SpecStock: the Stock Data and Prediction modules, and the reset.
NextStock ==
    \/ \E s \in STOCK_SYMBOLS, p \in Periods :
          \E o \in StockFor(s, p) :
             FetchStockData(s, p, o) /\ Observe(FetchStockDataRan(s, p, o))
    \/ \E d \in ForecastDays :
          GenerateForecast(d) /\ Observe(GenerateForecastRan(d))
    \/ ClearCachedData /\ ObserveClear

SpecStock == Init /\ [][NextStock]_vars

\* SpecNews: the News, Sentiment Analysis and Batch Analysis modules, and the
\* reset.
NextNews ==
    \/ \E k \in Keywords, l \in NewsLanguages, n \in ArticleSlider :
          \E feed \in FeedsFor(NewsKey(k, l, n)) :
             FetchNews(k, l, n, feed) /\ Observe(FetchNewsRan(k, l, n, feed))
    \/ \E t \in InputTexts :
          \E env \in EnvsFor(t) :
             AnalyzeSentiment(t, env) /\ Observe(AnalyzeSentimentRan(t, env))
    \/ \E c \in SourceChoices, n \in ArticleCounts :
          \E envs \in BatchEnvs(Source(c)) :
             RunBatchAnalysis(c, n, envs)
                /\ Observe(RunBatchAnalysisRan(c, n, envs))
    \/ ClearCachedData /\ ObserveClear

SpecNews == Init /\ [][NextNews]_vars


-----------------------------------------------------------------------------
(* The claims.                                                             *)

ScoreDone == args.fn = "analyze_sentiment" /\ out.done
BatchDone == args.fn = "batch_sentiment_analysis" /\ out.done
PredictDone == args.fn = "predict_stock_trend" /\ out.done

\* C1: for every text, either value of the detailed flag, and every outcome
\* of language detection, the local classifiers and the remote fallback,
\* analyze_sentiment returns a value in {-1, 0, 1} and raises nothing.
C1_ScoreInRange ==
    ScoreDone => (~out.res.raised /\ out.res.ret \in {-1, 0, 1})

\* Every tier fails: detection raises, the English classifier raises, the
\* remote message has no content; the call still returns 0.
C1_AllTiersFail ==
    /\ ScoreDone
    /\ ~args.detailed
    /\ sentiment_en
    /\ args.env.detect = "raise"
    /\ args.env.local = "raise"
    /\ args.env.remote.kind = "none"
    /\ out.res.tiers = <<"local", "remote">>
    /\ ~out.res.raised
    /\ out.res.ret = 0

\* C2: analyze_sentiment("") returns 0 whichever tiers are available and
\* whatever they answer.
C2_EmptyTextZero ==
    (ScoreDone /\ args.text = <<>>) => out.res.ret = 0

\* C3: in a non-detailed call the local tier comes first: when a classifier
\* is registered for the detected language and returns, its label is mapped
\* to +1/-1 and the remote tier is not called; otherwise the remote tier is
\* called exactly once, after the local one if that raised, and a remote
\* failure gives 0.
C3_TierOrder ==
    (ScoreDone /\ ~args.detailed) =>
        LET lang == IF args.env.detect = "raise" THEN "en" ELSE args.env.detect
            applies == (lang = "en" /\ sentiment_en) \/ (lang = "zh" /\ sentiment_zh)
            positive == IF lang = "en" THEN "POSITIVE" ELSE "positive"
        IN  IF applies /\ args.env.local # "raise"
            THEN /\ out.res.tiers = <<"local">>
                 /\ out.res.ret = IF args.env.local = positive THEN 1 ELSE -1
            ELSE /\ out.res.tiers =
                        (IF applies THEN <<"local">> ELSE <<>>) \o <<"remote">>
                 /\ args.env.remote.kind # "text" => out.res.ret = 0

\* The local classifier raised, the remote call raised: one remote call, 0.
C3_LocalThenRemoteFails ==
    /\ ScoreDone
    /\ ~args.detailed
    /\ args.env.local = "raise"
    /\ args.env.remote.kind = "raise"
    /\ out.res.tiers = <<"local", "remote">>
    /\ out.res.ret = 0

IsText(row) == row.title # NotAString

\* C4: batch_sentiment_analysis(df, K) returns one row for each of the first
\* K headlines whose processing does not raise, in the input's order, and so
\* at most K rows; a headline that raises is skipped and the later ones are
\* still processed; each row's label is Positive/Negative/Neutral exactly
\* when its score is >0 / <0 / =0.
C4_BatchPrefix ==
    BatchDone =>
        LET df == args.df
            k == args.max_count
            prefix == SubSeq(df, 1, IF k < Len(df) THEN k ELSE Len(df))
            kept == SelectSeq(prefix, IsText)
            res == out.res.results
        IN  /\ Len(res) <= k
            /\ Len(res) = Len(kept)
            /\ \A i \in 1..Len(res) :
                  /\ res[i].title = kept[i].title
                  /\ res[i].time = kept[i].published
                  /\ res[i].score \in {-1, 0, 1}
                  /\ (res[i].label = "Positive") <=> (res[i].score > 0)
                  /\ (res[i].label = "Negative") <=> (res[i].score < 0)
                  /\ (res[i].label = "Neutral") <=> (res[i].score = 0)

\* The first headline raises and the second, inside the prefix, is scored.
C4_SkippedThenScored ==
    /\ BatchDone
    /\ Len(args.df) >= 2
    /\ args.max_count >= 2
    /\ args.df[1].title = NotAString
    /\ Len(out.res.results) >= 1
    /\ out.res.results[1].time = 2

\* b is the calendar day after a.
IsDayAfter(a, b) ==
    \/ /\ b.y = a.y
       /\ b.m = a.m
       /\ b.d = a.d + 1
       /\ b.d <= DaysInMonth(a.y, a.m)
    \/ /\ a.d = DaysInMonth(a.y, a.m)
       /\ b.d = 1
       /\ \/ a.m < 12 /\ b.m = a.m + 1 /\ b.y = a.y
          \/ a.m = 12 /\ b.m = 1 /\ b.y = a.y + 1

\* C5: for a non-empty history with a Close column and any horizon,
\* predict_stock_trend returns exactly `horizon` points on consecutive
\* calendar days, the first the day after the last historical date; for an
\* empty history it returns an empty result.
C5_ForecastDates ==
    PredictDone =>
        LET h == args.stock_data
            res == out.res.ret
        IN  /\ ~out.res.raised
            /\ IF h = <<>> THEN res = <<>>
               ELSE HasClose(h) =>
                       /\ Len(res) = args.days_ahead
                       /\ \A i \in 1..Len(res) :
                             IsDayAfter(DateOf(IF i = 1 THEN h[Len(h)].Date
                                               ELSE res[i - 1].Date),
                                        DateOf(res[i].Date))

\* C6: a memoised call contacts the outside world exactly when its
\* arguments were not seen since the session started or was last cleared:
\* results are reused for identical arguments, and 'Clear Cached Data'
\* invalidates them.
C6_MemoInvalidatedByClear ==
    [][\A c \in run'.calls : c.computed <=> (<<c.fn, c.key>> \notin fresh)]_vars

\* C7: 'Run Batch Analysis' on an empty source only warns: no exception
\* ends the run and the stored batch result is unchanged.
C7_EmptyBatchAbsorbed ==
    [][(run'.button = "Run Batch Analysis" /\ Source(run'.input[1]) = <<>>)
          => /\ run'.exception = "none"
             /\ run'.messages = {"warning"}
             /\ detailed_sentiment_df' = detailed_sentiment_df]_vars

\* s contains kw, compared without regard to case (kw is upper case).
HasKeyword(s, kw) ==
    \E i \in 1..Len(s) :
        /\ i + Len(kw) - 1 <= Len(s)
        /\ \A k \in 1..Len(kw) : UpperChar(s[i + k - 1]) = kw[k]

\* C8: when the remote fallback answers with a text, the score is +1 if the
\* text contains POSITIVE (whatever else it contains), -1 if it contains
\* NEGATIVE and not POSITIVE, and 0 otherwise, without regard to case.
C8_PositiveBeforeNegative ==
    (/\ ScoreDone
     /\ \E i \in 1..Len(out.res.tiers) : out.res.tiers[i] = "remote"
     /\ args.env.remote.kind = "text") =>
        LET content == args.env.remote.content
        IN  out.res.ret = IF HasKeyword(content, POSITIVE) THEN 1
                          ELSE IF HasKeyword(content, NEGATIVE) THEN -1
                          ELSE 0

\* The remote answer holds NEGATIVE and then Positive; the score is +1.
C8_BothKeywords ==
    /\ ScoreDone
    /\ out.res.tiers = <<"remote">>
    /\ args.env.remote.kind = "text"
    /\ args.env.remote.content = NEGATIVE \o Positive
    /\ out.res.ret = 1

\* C9: 'Clear Cached Data' leaves the five session frames empty and the
\* saved preferences and the API-validity flag as they were.
C9_ClearResetsFrames ==
    [][ClearCachedData =>
          /\ current_news_df' = <<>>
          /\ historical_news_df' = <<>>
          /\ stock_data_df' = <<>>
          /\ detailed_sentiment_df' = <<>>
          /\ prediction_df' = <<>>
          /\ preferred_language' = preferred_language
          /\ preferred_stock' = preferred_stock
          /\ api_valid' = api_valid]_vars

\* A session after a reset: news and prices were fetched (their stores hold
\* them) and headlines were scored, every frame is empty again, and the
\* preferences and the flag still hold what the user set.
C9_ClearedWithPreferences ==
    /\ \E k \in DOMAIN memo_news : memo_news[k] # <<>>
    /\ \E k \in DOMAIN memo_stock : memo_stock[k] # <<>>
    /\ \E k \in DOMAIN memo_sentiment : k[1] = <<>>
    /\ current_news_df = <<>>
    /\ stock_data_df = <<>>
    /\ detailed_sentiment_df = <<>>
    /\ prediction_df = <<>>
    /\ preferred_language = "Spanish"
    /\ preferred_stock = "XIACF"
    /\ api_valid

\* C10: a stored forecast was computed from the stored price history: the
\* history is not empty, the forecast's model was fitted to it, and its
\* first date is the day after the history's last date.
C10_ForecastOfStoredHistory ==
    prediction_df # <<>> =>
        /\ stock_data_df # <<>>
        /\ prediction_df[1].Predicted_Close.model = Fit(stock_data_df)
        /\ IsDayAfter(DateOf(stock_data_df[Len(stock_data_df)].Date),
                      DateOf(prediction_df[1].Date))

=============================================================================
